---- MODULE Spec2Model ----
(***************************************************************************)
(* Model of pkg/cloudprovider/providers/openstack/openstack_routes.go:     *)
(* the OpenStack implementation of cloudprovider.Routes (ListRoutes,       *)
(* CreateRoute, DeleteRoute) acting on a Neutron router's route table and  *)
(* on the allowed-address-pairs of the port that owns the next hop.        *)
(*                                                                         *)
(* Every remote call (compute or network API) is one step of a call and    *)
(* may fail.  The caller serializes its invocations, so an operation is    *)
(* one action that runs the steps of the call to its return.               *)
(***************************************************************************)
EXTENDS Integers, Sequences, FiniteSets, TLC

\* ---------------------------------------------------------------- bounds
MaxRoutes == 2      \* longest route table a CreateRoute may leave
MaxAddrs == 2       \* longest address list of node n1 drawn in Init

\* ------------------------------------------------------- the environment
Servers == <<"n1", "n2">>          \* enumeration order of foreachServer
Nodes == {"n1", "n2"}
TargetNodes == {"n1"}              \* the nodes routes are created for
PortIDs == {"p1"}

InternalIP == "InternalIP"
ExternalIP == "ExternalIP"

A4 == [Address |-> "10.0.0.5", Type |-> InternalIP]
A6 == [Address |-> "fd00::5", Type |-> InternalIP]
E4 == [Address |-> "203.0.113.5", Type |-> ExternalIP]
B4 == [Address |-> "10.0.0.6", Type |-> InternalIP]
AddrUniverse == {A4, A6, E4}

CIDRs == {"10.1.0.0/24", "fd00:1::/64"}

\* net.ParseCIDR(cidr) followed by IP.String(); a parse error leaves IP nil
ParseCIDRIPString(cidr) ==
  CASE cidr = "10.1.0.0/24" -> "10.1.0.0"
    [] cidr = "10.2.0.0/24" -> "10.2.0.0"
    [] cidr = "fd00:1::/64" -> "fd00:1::"
    [] OTHER -> "<nil>"

\* govalidator.IsIPv4 / IsIPv6 on the strings of this model
IsIPv4(str) == str \in {"10.0.0.5", "10.0.0.6", "10.0.0.99", "203.0.113.5", "10.1.0.0", "10.2.0.0"}
IsIPv6(str) == str \in {"fd00::5", "fd00:1::"}

\* getAttachedInterfacesByID: the interfaces of each server, in order; no
\* interface of n1 carries its v6 address
Interfaces(node) ==
  IF node = "n1"
    THEN << [PortID |-> "p1", FixedIPs |-> {"10.0.0.5"}] >>
    ELSE << >>

\* ---------------------------------------------------------------- errors
ErrNil == "nil"
ErrNoAddressFound == "ErrNoAddressFound"
ErrNotFound == "ErrNotFound"
ErrGetAddresses == "getAddressesByName failed"
ErrListServers == "foreachServer failed"
ErrRouterGet == "routers.Get failed"
ErrRouterUpdate == "routers.Update failed"
ErrPortLookup == "getPortIDByIP failed"
ErrPortGet == "ports.Get failed"
ErrPortUpdate == "ports.Update failed"
ErrUnwind == "unwind update failed"

VARIABLES
  routerRoutes,   \* the router's route table (remote), a sequence of routers.Route
  portPairs,      \* port -> allowed-address-pairs (remote), sequences of IPAddress
  nodeAddrs,      \* node -> address list returned by getAddressesByName
  last,           \* history: the local state of the call that returned last
  prev,           \* history: the call that returned before it, if a CreateRoute
  call            \* caller -> the local state of its call, for interleaved calls

vars == <<routerRoutes, portPairs, nodeAddrs, last, prev, call>>

\* ------------------------------------------------------ pure helpers
Count(s, x) == Cardinality({i \in DOMAIN s : s[i] = x})
Elems(s) == {s[i] : i \in DOMAIN s}

Route(cidr, hop) == [DestinationCIDR |-> cidr, NextHop |-> hop]

RECURSIVE FindNextHopFrom(_, _, _)
\* the loop of lines 165-172 / 259-266, started at index i
FindNextHopFrom(addrs, cidr, i) ==
  IF i > Len(addrs) THEN ""
  ELSE IF /\ addrs[i].Type = InternalIP
          /\ \/ IsIPv4(addrs[i].Address) /\ IsIPv4(ParseCIDRIPString(cidr))
             \/ IsIPv6(addrs[i].Address) /\ IsIPv6(ParseCIDRIPString(cidr))
       THEN addrs[i].Address
       ELSE FindNextHopFrom(addrs, cidr, i + 1)

\* faulty variant: the first internal address, whatever its family
FindNextHopAnyFamily(addrs, cidr) ==
  IF \E i \in 1..Len(addrs) : addrs[i].Type = InternalIP
    THEN addrs[CHOOSE i \in 1..Len(addrs) :
                 /\ addrs[i].Type = InternalIP
                 /\ \A j \in 1..(i - 1) : addrs[j].Type # InternalIP].Address
    ELSE ""

FindNextHop(addrs, cidr) == FindNextHopFrom(addrs, cidr, 1)

RECURSIVE RouteIndexFrom(_, _, _, _)
\* first index of (cidr, hop) in routes at or after i; 0 stands for Go's -1
RouteIndexFrom(routes, cidr, hop, i) ==
  IF i > Len(routes) THEN 0
  ELSE IF routes[i].DestinationCIDR = cidr /\ routes[i].NextHop = hop THEN i
  ELSE RouteIndexFrom(routes, cidr, hop, i + 1)

\* faulty variant: the existing entry is never found
RouteIndexNone(routes, cidr, hop) == 0

\* faulty variant: a missing entry yields the last index instead of -1
RouteIndexOrLast(routes, cidr, hop) ==
  IF RouteIndexFrom(routes, cidr, hop, 1) # 0
    THEN RouteIndexFrom(routes, cidr, hop, 1) ELSE Len(routes)

\* faulty variant: the search skips the first entry
RouteIndexSkipFirst(routes, cidr, hop) == RouteIndexFrom(routes, cidr, hop, 2)

RouteIndex(routes, cidr, hop) == RouteIndexFrom(routes, cidr, hop, 1)

RECURSIVE PairIndexFrom(_, _, _)
PairIndexFrom(pairs, cidr, i) ==
  IF i > Len(pairs) THEN 0
  ELSE IF pairs[i] = cidr THEN i
  ELSE PairIndexFrom(pairs, cidr, i + 1)

\* faulty variant: the existing pair is never found
PairIndexNone(pairs, cidr) == 0

\* faulty variant: a missing pair yields the last index instead of -1
PairIndexOrLast(pairs, cidr) ==
  IF PairIndexFrom(pairs, cidr, 1) # 0
    THEN PairIndexFrom(pairs, cidr, 1) ELSE Len(pairs)

PairIndex(pairs, cidr) == PairIndexFrom(pairs, cidr, 1)

\* faulty variant: the last element is not moved into the slot
SwapLastNone(s, index) == s

\* s[index] = s[len(s)-1]: the write through the shared backing array
SwapLast(s, index) == [s EXCEPT ![index] = s[Len(s)]]

\* faulty variant: drops the first element instead of the last
TruncateFront(s) == SubSeq(s, 2, Len(s))

\* s = s[:len(s)-1] after the swap
Truncate(s) == SubSeq(s, 1, Len(s) - 1)

\* ------------------------------------------------- compensation (caller)
\* onFailure := newCaller(): armed
newCaller == TRUE
\* onFailure.disarm()
disarm(c) == FALSE
\* onFailure.call(f) runs f exactly when the caller is still armed
callRuns(c) == c

\* ------------------------------------------------------- ListRoutes
RECURSIVE AddAddrs(_, _, _, _)
\* for _, addr := range addrs { nodeNamesByAddr[addr.Address] = name }
AddAddrs(m, addrs, name, i) ==
  IF i > Len(addrs) THEN m
  ELSE AddAddrs([a \in (DOMAIN m) \cup {addrs[i].Address} |->
                   IF a = addrs[i].Address THEN name ELSE m[a]],
                addrs, name, i + 1)

RECURSIVE NodeNamesFrom(_, _, _)
\* the foreachServer callback applied to the servers from index k on
NodeNamesFrom(m, addrsOf, k) ==
  IF k > Len(Servers) THEN m
  ELSE NodeNamesFrom(AddAddrs(m, addrsOf[Servers[k]], Servers[k], 1), addrsOf, k + 1)

NodeNamesByAddr(addrsOf) == NodeNamesFrom(<< >>, addrsOf, 1)

\* faulty variant: the negation is lost
BlackholeInverted(m, hop) == hop \in DOMAIN m

\* Blackhole: !foundNode
Blackhole(m, hop) == hop \notin DOMAIN m

\* the cloudprovider.Route built for one router route
ListedRoute(m, item) ==
  [Name |-> item.DestinationCIDR,
   TargetNode |-> IF item.NextHop \in DOMAIN m THEN m[item.NextHop] ELSE "",
   Blackhole |-> Blackhole(m, item.NextHop),
   DestinationCIDR |-> item.DestinationCIDR]

ListedRoutes(m, routes) == [i \in 1..Len(routes) |-> ListedRoute(m, routes[i])]

\* ------------------------------------------------------- getPortIDByIP
RECURSIVE PortIDByIPFrom(_, _, _)
\* first interface at or after i with ip among its fixed IPs; "" if none
PortIDByIPFrom(intfs, ip, i) ==
  IF i > Len(intfs) THEN ""
  ELSE IF ip \in intfs[i].FixedIPs THEN intfs[i].PortID
  ELSE PortIDByIPFrom(intfs, ip, i + 1)

PortIDByIP(node, ip) == PortIDByIPFrom(Interfaces(node), ip, 1)

\* ------------------------------------------------------- call records
\* the local variables of a call, with counters of the writes it issued
NoCall ==
  [pc |-> "returned", op |-> "none", cidr |-> "", node |-> "", nexthop |-> "",
   router |-> << >>, routes |-> << >>, portID |-> "", port |-> << >>,
   pairs |-> << >>, deferred |-> << >>, onFailure |-> FALSE,
   err |-> ErrNil, trigger |-> "", cause |-> ErrNil, listed |-> << >>,
   preRoutes |-> << >>, prePairs |-> [q \in PortIDs |-> << >>],
   nRouterUpdate |-> 0, nPortUpdate |-> 0, nUnwind |-> 0, unwound |-> << >>,
   unwindFailed |-> FALSE, pushed |-> << >>, steps |-> << >>, robbed |-> {},
   overwrote |-> {}]

NewCall(op, cidr, node) ==
  [NoCall EXCEPT !.pc = IF op = "list" THEN "foreachServer" ELSE "getAddressesByName",
                 !.op = op, !.cidr = cidr, !.node = node,
                 !.onFailure = IF op = "list" THEN FALSE ELSE newCaller,
                 !.preRoutes = routerRoutes, !.prePairs = portPairs]

\* a call in progress together with the remote state it acts on
St(c, rr, pp) == [c |-> c, rr |-> rr, pp |-> pp]

\* faulty variant: the unwinders are not deferred
ReturnNoUnwind(st, err) == [st EXCEPT !.c.pc = "returned", !.c.err = err]

\* a return statement: the deferred onFailure.call(unwind) run before the
\* call returns, and do nothing once the caller is disarmed
Return(st, err) ==
  IF st.c.deferred # << >> /\ callRuns(st.c.onFailure)
    THEN [st EXCEPT !.c.pc = "unwind", !.c.err = err]
    ELSE [st EXCEPT !.c.pc = "returned", !.c.err = err]

\* faulty variant: a failed step is issued a second time
FailRetryOnce(st, err) ==
  IF Count(st.c.steps, st.c.pc) < 2 THEN st
  ELSE Return([st EXCEPT !.c.trigger = st.c.pc, !.c.cause = err], err)

\* a remote call or a check failed: trigger and cause record where and how
Fail(st, err) == Return([st EXCEPT !.c.trigger = st.c.pc, !.c.cause = err], err)

\* ------------------------------------------------- steps of ListRoutes
foreachServer(st, ok) ==
  IF ok THEN [st EXCEPT !.c.pc = "routersGet"]
  ELSE Fail(st, ErrListServers)

\* ------------------------------- steps of CreateRoute and DeleteRoute
getAddressesByName(st, ok) ==
  LET addrs == nodeAddrs[st.c.node]
      hop == FindNextHop(addrs, st.c.cidr)
  IN IF ~ok THEN Fail(st, ErrGetAddresses)
     ELSE IF Len(addrs) = 0 \/ hop = "" THEN Fail(st, ErrNoAddressFound)
     ELSE [st EXCEPT !.c.pc = "routersGet", !.c.nexthop = hop]

\* routers.Get and the code up to the next remote call
routersGet(st, ok) ==
  LET c == st.c
      r == st.rr
      index == RouteIndex(r, c.cidr, c.nexthop)
  IN IF ~ok THEN Fail(st, ErrRouterGet)
     ELSE IF c.op = "list"
       THEN Return([st EXCEPT !.c.router = r,
                              !.c.listed = ListedRoutes(NodeNamesByAddr(nodeAddrs), r)],
                   ErrNil)
     ELSE IF c.op = "create"
       THEN IF index # 0
              THEN Return([st EXCEPT !.c.router = r], ErrNil)
              ELSE [st EXCEPT !.c.pc = "updateRoutes", !.c.router = r,
                              !.c.routes = Append(r, Route(c.cidr, c.nexthop))]
     ELSE IF index = 0
       THEN Return([st EXCEPT !.c.router = r], ErrNil)
       ELSE [st EXCEPT !.c.pc = "updateRoutes",
                       !.c.router = SwapLast(r, index),
                       !.c.routes = Truncate(SwapLast(r, index))]

\* faulty variant: the snapshot is taken of the new routes
OrigRoutesNew(c) == c.routes

\* origRoutes := router.Routes, the slice header read when updateRoutes runs
OrigRoutes(c) == c.router

\* faulty variant: the unwinder is deferred before the error of the update is
\* looked at
updateRoutesDeferEarly(st, ok) ==
  LET armed == [st EXCEPT !.c.nRouterUpdate = @ + 1,
                          !.c.pushed = Append(@, "router"),
                          !.c.deferred = Append(@, [kind |-> "router", orig |-> OrigRoutes(st.c)])]
  IN IF ~ok THEN Fail(armed, ErrRouterUpdate)
     ELSE [armed EXCEPT !.rr = st.c.routes, !.c.pc = "getPortIDByIP"]

\* faulty variant: a CreateRoute appends its entry to the table as it is at
\* the write, not to the table it read
updateRoutesOntoCurrent(st, ok) ==
  IF ~ok THEN Fail([st EXCEPT !.c.nRouterUpdate = @ + 1], ErrRouterUpdate)
  ELSE [st EXCEPT !.rr = IF st.c.op = "create"
                           THEN Append(st.rr, Route(st.c.cidr, st.c.nexthop))
                           ELSE st.c.routes,
                  !.c.pc = "getPortIDByIP",
                  !.c.nRouterUpdate = @ + 1,
                  !.c.pushed = Append(@, "router"),
                  !.c.deferred = Append(@, [kind |-> "router", orig |-> OrigRoutes(st.c)])]

\* c.updateRoutes of CreateRoute and DeleteRoute, with the unwinder it returns
\* deferred on success
updateRoutes(st, ok) ==
  IF ~ok THEN Fail([st EXCEPT !.c.nRouterUpdate = @ + 1], ErrRouterUpdate)
  ELSE [st EXCEPT !.rr = st.c.routes,
                  !.c.pc = "getPortIDByIP",
                  !.c.nRouterUpdate = @ + 1,
                  !.c.pushed = Append(@, "router"),
                  !.c.deferred = Append(@, [kind |-> "router", orig |-> OrigRoutes(st.c)])]

getPortIDByIP(st, ok) ==
  LET portID == PortIDByIP(st.c.node, st.c.nexthop)
  IN IF ~ok THEN Fail(st, ErrPortLookup)
     ELSE IF portID = "" THEN Fail(st, ErrNotFound)
     ELSE [st EXCEPT !.c.pc = "getPortByID", !.c.portID = portID]

\* neutronports.Get and the code up to the next remote call
getPortByID(st, ok) ==
  LET c == st.c
      port == st.pp[c.portID]
      index == PairIndex(port, c.cidr)
  IN IF ~ok THEN Fail(st, ErrPortGet)
     ELSE IF c.op = "create"
       THEN IF index # 0
              THEN Return([st EXCEPT !.c.port = port, !.c.onFailure = disarm(@)], ErrNil)
              ELSE [st EXCEPT !.c.pc = "updateAllowedAddressPairs",
                              !.c.port = port,
                              !.c.pairs = Append(port, c.cidr)]
     ELSE IF index = 0
       THEN Return([st EXCEPT !.c.port = port, !.c.onFailure = disarm(@)], ErrNil)
       ELSE [st EXCEPT !.c.pc = "updateAllowedAddressPairs",
                       !.c.port = SwapLast(port, index),
                       !.c.pairs = Truncate(SwapLast(port, index))]

\* faulty variant: onFailure.disarm() is missing
updateAllowedAddressPairsArmed(st, ok) ==
  IF ~ok THEN Fail([st EXCEPT !.c.nPortUpdate = @ + 1], ErrPortUpdate)
  ELSE Return([st EXCEPT !.pp[st.c.portID] = st.c.pairs,
                         !.c.nPortUpdate = @ + 1,
                         !.c.pushed = Append(@, "port"),
                         !.c.deferred = Append(@, [kind |-> "port", orig |-> st.c.port])],
              ErrNil)

\* c.updateAllowedAddressPairs, its unwinder deferred, and onFailure.disarm()
updateAllowedAddressPairs(st, ok) ==
  IF ~ok THEN Fail([st EXCEPT !.c.nPortUpdate = @ + 1], ErrPortUpdate)
  ELSE Return([st EXCEPT !.pp[st.c.portID] = st.c.pairs,
                         !.c.nPortUpdate = @ + 1,
                         !.c.pushed = Append(@, "port"),
                         !.c.deferred = Append(@, [kind |-> "port", orig |-> st.c.port]),
                         !.c.onFailure = disarm(@)],
              ErrNil)

\* faulty variant: the error of a failed unwinder replaces the original
UnwindResultMasked(err, ok) == IF ok THEN err ELSE ErrUnwind

\* the error the call returns after an unwinder ran: the unwinder only logs
UnwindResult(err, ok) == err

\* the deferred unwinder on top of the stack runs: one whole-collection write
unwind(st, ok) ==
  LET c == st.c
      top == c.deferred[Len(c.deferred)]
      rest == SubSeq(c.deferred, 1, Len(c.deferred) - 1)
  IN [st EXCEPT !.rr = IF ok /\ top.kind = "router" THEN top.orig ELSE @,
                !.pp = IF ok /\ top.kind = "port"
                         THEN [@ EXCEPT ![c.portID] = top.orig] ELSE @,
                !.c.deferred = rest,
                !.c.nUnwind = @ + 1,
                !.c.unwound = Append(@, top.kind),
                !.c.unwindFailed = @ \/ ~ok,
                !.c.err = UnwindResult(@, ok),
                !.c.pc = IF rest = << >> THEN "returned" ELSE "unwind"]

\* the remote call the call is at, which succeeds iff ok
RemoteCall(st, ok) ==
  CASE st.c.pc = "foreachServer" -> foreachServer(st, ok)
    [] st.c.pc = "getAddressesByName" -> getAddressesByName(st, ok)
    [] st.c.pc = "routersGet" -> routersGet(st, ok)
    [] st.c.pc = "updateRoutes" -> updateRoutes(st, ok)
    [] st.c.pc = "getPortIDByIP" -> getPortIDByIP(st, ok)
    [] st.c.pc = "getPortByID" -> getPortByID(st, ok)
    [] st.c.pc = "updateAllowedAddressPairs" -> updateAllowedAddressPairs(st, ok)
    [] st.c.pc = "unwind" -> unwind(st, ok)

\* one step of a call; steps records the remote calls it issued, in order
StepCall(st, ok) == RemoteCall([st EXCEPT !.c.steps = Append(@, st.c.pc)], ok)

\* the remote calls that fail with an unwinder deferred
Unwinding == {"getPortIDByIP", "getPortByID", "updateAllowedAddressPairs"}

RECURSIVE Outcomes(_)
\* the call runs to its return, each of its remote calls succeeding or
\* failing: the states it can return in
Outcomes(st) ==
  IF st.c.pc = "returned" THEN {st}
  ELSE UNION {Outcomes(StepCall(st, ok)) : ok \in BOOLEAN}

\* what last keeps of a call that returned
LastOf(c) ==
  [op |-> c.op, cidr |-> c.cidr, node |-> c.node, nexthop |-> c.nexthop,
   err |-> c.err, trigger |-> c.trigger, cause |-> c.cause,
   router |-> c.router, listed |-> c.listed,
   preRoutes |-> c.preRoutes, prePairs |-> c.prePairs,
   nRouterUpdate |-> c.nRouterUpdate, nPortUpdate |-> c.nPortUpdate,
   nUnwind |-> c.nUnwind, unwound |-> c.unwound, unwindFailed |-> c.unwindFailed,
   pushed |-> c.pushed, steps |-> c.steps]

\* what prev keeps of the call before it
PrevOf(l) ==
  IF l.op = "create"
    THEN [op |-> l.op, cidr |-> l.cidr, node |-> l.node, nexthop |-> l.nexthop,
          err |-> l.err, trigger |-> l.trigger, unwindFailed |-> l.unwindFailed,
          preRoutes |-> l.preRoutes, prePairs |-> l.prePairs]
    ELSE [op |-> "none"]

\* ------------------------------------------------------------- Init
\* the callers of interleaved calls
Callers == {"A", "B"}

\* the sequences without repetition over S of length at most n
SeqsUpTo(S, n) ==
  {s \in UNION {[1..k -> S] : k \in 0..n} :
     \A i, j \in DOMAIN s : i # j => s[i] # s[j]}

\* a route left on the router by someone else, to an address of no instance
ForeignRoute == Route("10.2.0.0/24", "10.0.0.99")

\* an allowed-address-pair set on the port by someone else
ForeignPair == "192.168.9.0/24"

Init ==
  /\ routerRoutes \in {<< >>, <<ForeignRoute>>, <<Route("10.1.0.0/24", "10.0.0.5"), ForeignRoute>>}
  /\ portPairs \in [PortIDs -> {<<ForeignPair>>, <<"10.1.0.0/24", ForeignPair>>}]
  /\ nodeAddrs \in {[n \in Nodes |-> IF n = "n1" THEN l ELSE <<B4>>] :
                        l \in SeqsUpTo(AddrUniverse, MaxAddrs)}
  /\ last = LastOf(NoCall)
  /\ prev = PrevOf(NoCall)
  /\ call = [p \in Callers |-> NoCall]

\* ------------------------------------------------------- operations
\* the call c0 runs to its return
Returns(c0) ==
  \E st \in Outcomes(St(c0, routerRoutes, portPairs)) :
     /\ routerRoutes' = st.rr
     /\ portPairs' = st.pp
     /\ last' = LastOf(st.c)
     /\ prev' = PrevOf(last)
     /\ UNCHANGED <<nodeAddrs, call>>

\* the calls that would leave more than MaxRoutes routes are left out
CreateRoute(cidr, node) ==
  /\ Returns(NewCall("create", cidr, node))
  /\ Len(routerRoutes') <= MaxRoutes

DeleteRoute(cidr, node) == Returns(NewCall("delete", cidr, node))

ListRoutes == Returns(NewCall("list", "", ""))

Next ==
  \/ \E cidr \in CIDRs, node \in TargetNodes : CreateRoute(cidr, node)
  \/ \E cidr \in CIDRs, node \in TargetNodes : DeleteRoute(cidr, node)
  \/ ListRoutes

Spec == Init /\ [][Next]_vars

\* ---------------------------------------------------- interleaved calls
\* Two callers of CreateRoute without mutual exclusion: each remote call of
\* a call is one step, and the steps of the two calls interleave.
ConcCIDRs == {"10.1.0.0/24", "10.2.0.0/24"}

InitConc ==
  /\ routerRoutes = << >>
  /\ portPairs = [q \in PortIDs |-> << >>]
  /\ nodeAddrs = [n \in Nodes |-> IF n = "n1" THEN <<A4>> ELSE <<B4>>]
  /\ last = LastOf(NoCall)
  /\ prev = PrevOf(NoCall)
  /\ call = [p \in Callers |-> NoCall]

\* the route a call is about
EntryOf(c) == Route(c.cidr, c.nexthop)

\* q's last call was a CreateRoute that returned success
Committed(q) ==
  call[q].pc = "returned" /\ call[q].op = "create" /\ call[q].err = ErrNil

\* the CreateRoute of q wrote its route and has not failed
Wrote(q) ==
  call[q].op = "create" /\ call[q].nRouterUpdate = 1 /\ call[q].err = ErrNil
  /\ call[q].trigger = ""

\* history: the callers among qs whose route is on the router before the
\* write of rr by p and not after it
LostBy(p, rr, qs) ==
  {q \in qs \ {p} :
     /\ Count(routerRoutes, EntryOf(call[q])) > 0
     /\ Count(rr, EntryOf(call[q])) = 0}

\* what a caller keeps of its call: the locals of a call that returned are
\* dropped, and so is the remote state before the call, which only the
\* serialized calls record
Kept(c) ==
  IF c.pc = "returned"
    THEN [c EXCEPT !.router = << >>, !.routes = << >>, !.portID = "",
                   !.port = << >>, !.pairs = << >>, !.deferred = << >>,
                   !.onFailure = FALSE, !.cause = ErrNil, !.listed = << >>,
                   !.preRoutes = << >>, !.prePairs = [q \in PortIDs |-> << >>]]
    ELSE [c EXCEPT !.preRoutes = << >>, !.prePairs = [q \in PortIDs |-> << >>]]

\* caller p enters an operation
Begin(p, op, cidr, node) ==
  /\ call[p].pc = "returned"
  /\ op = "create" => Len(routerRoutes) < MaxRoutes
  /\ call' = [q \in Callers |->
               IF q = p THEN Kept(NewCall(op, cidr, node))
               ELSE [call[q] EXCEPT !.robbed = @ \ {p}, !.overwrote = @ \ {p}]]
  /\ UNCHANGED <<routerRoutes, portPairs, nodeAddrs, last, prev>>

\* the call of p issues its next remote call, which succeeds or fails
Step(p) ==
  /\ call[p].pc # "returned"
  /\ \E ok \in BOOLEAN :
       \E st \in {StepCall(St(call[p], routerRoutes, portPairs), ok)} :
          /\ routerRoutes' = st.rr
          /\ portPairs' = st.pp
          /\ call' = [call EXCEPT ![p] =
                        [Kept(st.c) EXCEPT
                           !.robbed =
                             IF call[p].pc = "unwind"
                               THEN LostBy(p, st.rr, {q \in Callers : Committed(q)})
                               ELSE @,
                           !.overwrote =
                             IF call[p].pc = "updateRoutes"
                               THEN LostBy(p, st.rr, {q \in Callers : Wrote(q)})
                               ELSE @]]
  /\ UNCHANGED <<nodeAddrs, last, prev>>

NextConc ==
  \/ \E p \in Callers, cidr \in ConcCIDRs, node \in TargetNodes :
       Begin(p, "create", cidr, node)
  \/ \E p \in Callers : Step(p)

SpecConc == InitConc /\ [][NextConc]_vars

\* ------------------------------------------------------ one call by steps
\* One caller from the states of Init, each remote call of its call one step.
NextStep ==
  \/ \E op \in {"create", "delete"}, cidr \in CIDRs, node \in TargetNodes :
       Begin("A", op, cidr, node)
  \/ Begin("A", "list", "", "")
  \/ Step("A")

\* every remote call returns or fails, so a call in progress takes its next step
SpecStep == Init /\ [][NextStep]_vars /\ WF_vars(Step("A"))

\* ------------------------------------------------------------ properties
SameEntries(s, t) == \A x \in Elems(s) \cup Elems(t) : Count(s, x) = Count(t, x)

Mutating(c) == c.op \in {"create", "delete"}
NoWrites(c) == c.nRouterUpdate = 0 /\ c.nPortUpdate = 0 /\ c.nUnwind = 0

\* the filter list of the port that owns hop on node, << >> if there is none
OwnerPairs(pp, node, hop) ==
  IF PortIDByIP(node, hop) = "" THEN << >> ELSE pp[PortIDByIP(node, hop)]

\* prev is a CreateRoute and last a call op for the same route
SameRouteAgain(op) ==
  /\ prev.op = "create"
  /\ last.op = op
  /\ last.cidr = prev.cidr
  /\ last.node = prev.node

\* prev started with neither the route entry nor the filter entry
PrevStartedFresh ==
  /\ Count(prev.preRoutes, Route(prev.cidr, prev.nexthop)) = 0
  /\ Count(OwnerPairs(prev.prePairs, prev.node, prev.nexthop), prev.cidr) = 0

\* C1: two successful CreateRoute calls in sequence for the same
\* (DestinationCIDR, TargetNode), the first started with neither the route
\* entry nor the filter entry: the route table has exactly one such entry,
\* the owning port's filter list has exactly one DestinationCIDR entry, and
\* the second call issued no remote write.
C1_CreateTwice ==
  (/\ SameRouteAgain("create")
   /\ prev.err = ErrNil
   /\ last.err = ErrNil
   /\ PrevStartedFresh)
  => /\ Count(routerRoutes, Route(last.cidr, last.nexthop)) = 1
     /\ Count(OwnerPairs(portPairs, last.node, last.nexthop), last.cidr) = 1
     /\ NoWrites(last)

C1_Witness ==
  /\ SameRouteAgain("create")
  /\ prev.err = ErrNil
  /\ last.err = ErrNil
  /\ PrevStartedFresh
  /\ Len(routerRoutes) = 2

\* C2: a CreateRoute whose port filter write failed after the route-table
\* write succeeded, and whose compensating router write succeeded, leaves
\* the route table equal to its pre-call contents (same entries, same
\* order) and returns the filter-write error.
C2_CreateRollback ==
  (/\ last.op = "create"
   /\ last.trigger = "updateAllowedAddressPairs"
   /\ ~last.unwindFailed)
  => /\ routerRoutes = last.preRoutes
     /\ last.err = ErrPortUpdate

C2_Witness ==
  /\ last.op = "create"
  /\ last.trigger = "updateAllowedAddressPairs"
  /\ ~last.unwindFailed
  /\ last.nRouterUpdate = 1
  /\ last.nUnwind = 1
  /\ last.preRoutes # << >>

\* C3: a DeleteRoute that failed after its successful route-table write
\* (port lookup, port fetch or filter write) and whose compensating router
\* write succeeded leaves the route table with exactly its pre-call entries,
\* wherever the deleted entry stood in the table.
C3_DeleteRollback ==
  (/\ last.op = "delete"
   /\ last.trigger \in Unwinding
   /\ ~last.unwindFailed)
  => SameEntries(routerRoutes, last.preRoutes)

\* C4: a DeleteRoute for a (DestinationCIDR, nexthop) pair that is not in
\* the route table returns success and issues no remote write, whatever the
\* port's filter list contains.
C4_DeleteAbsent ==
  (/\ last.op = "delete"
   /\ last.trigger = ""
   /\ Count(last.preRoutes, Route(last.cidr, last.nexthop)) = 0)
  => /\ last.err = ErrNil
     /\ NoWrites(last)
     /\ routerRoutes = last.preRoutes
     /\ portPairs = last.prePairs

C4_Witness ==
  /\ last.op = "delete"
  /\ last.trigger = ""
  /\ last.nexthop # ""
  /\ Count(last.preRoutes, Route(last.cidr, last.nexthop)) = 0
  /\ last.preRoutes # << >>
  /\ Count(OwnerPairs(last.prePairs, last.node, last.nexthop), last.cidr) = 1

\* C5: after a CreateRoute that failed part-way (its rollback write
\* possibly failing too), a retried CreateRoute for the same route that
\* returns success leaves the route entry in the route table and
\* DestinationCIDR in the owning port's filter list.
C5_RetryRestoresLockstep ==
  (/\ SameRouteAgain("create")
   /\ prev.trigger \in Unwinding
   /\ last.err = ErrNil)
  => /\ Count(routerRoutes, Route(last.cidr, last.nexthop)) >= 1
     /\ Count(OwnerPairs(portPairs, last.node, last.nexthop), last.cidr) >= 1

\* C6 as stated: a CreateRoute or DeleteRoute that returns NoAddressFound or
\* NotFound has issued no remote write.
C6_ResolutionErrorsBeforeWrites ==
  (Mutating(last) /\ last.err \in {ErrNoAddressFound, ErrNotFound}) => NoWrites(last)

\* C6 as amended: a CreateRoute or DeleteRoute that returns NoAddressFound
\* has issued no remote write and left both collections alone; one that
\* returns NotFound for the port owning the next hop has issued exactly one
\* route-table write, which succeeded, no port write, and one compensating
\* router write.
C6_ResolutionErrors ==
  /\ (Mutating(last) /\ last.err = ErrNoAddressFound)
       => /\ NoWrites(last)
          /\ routerRoutes = last.preRoutes
          /\ portPairs = last.prePairs
  /\ (Mutating(last) /\ last.err = ErrNotFound)
       => /\ last.nRouterUpdate = 1
          /\ last.nPortUpdate = 0
          /\ last.nUnwind = 1
          /\ last.unwound = <<"router">>

C6_Witness ==
  /\ last.op = "create"
  /\ last.err = ErrNotFound
  /\ last.nUnwind = 1
  /\ prev.op = "create"
  /\ prev.err = ErrNoAddressFound

\* C7: a failing CreateRoute or DeleteRoute returns the error of the step
\* that triggered the failure, also when the compensating write failed, and
\* a call that returns no error had no failing step.
C7_OriginalError ==
  Mutating(last) => /\ last.err = last.cause
                    /\ (last.err = ErrNil <=> last.trigger = "")

C7_Witness ==
  /\ Mutating(last)
  /\ last.unwindFailed
  /\ last.err = ErrPortUpdate

\* the instances that have the address hop
Holders(hop) ==
  {n \in Nodes : \E j \in DOMAIN nodeAddrs[n] : nodeAddrs[n][j].Address = hop}

\* C8: ListRoutes returns one route per router route, in order; Blackhole
\* is true iff the next hop is an address of no enumerated instance; when it
\* is false TargetNode names an instance that has the address, and when it
\* is true TargetNode is empty.
C8_Blackhole ==
  (last.op = "list" /\ last.err = ErrNil)
  => /\ Len(last.listed) = Len(last.router)
     /\ \A i \in DOMAIN last.router :
          /\ last.listed[i].DestinationCIDR = last.router[i].DestinationCIDR
          /\ last.listed[i].Blackhole <=> Holders(last.router[i].NextHop) = {}
          /\ ~last.listed[i].Blackhole
               => last.listed[i].TargetNode \in Holders(last.router[i].NextHop)
          /\ last.listed[i].Blackhole => last.listed[i].TargetNode = ""

C8_Witness ==
  /\ last.op = "list"
  /\ last.err = ErrNil
  /\ \E i, j \in DOMAIN last.listed :
       /\ last.listed[i].Blackhole
       /\ ~last.listed[j].Blackhole
       /\ last.listed[j].TargetNode = "n1"

\* the family of an address string and of a CIDR
Family(str) == IF IsIPv4(str) THEN "v4" ELSE IF IsIPv6(str) THEN "v6" ELSE "none"

\* the address at index i can carry the CIDR: internal and of its family
Usable(addrs, i, cidr) ==
  /\ addrs[i].Type = InternalIP
  /\ Family(addrs[i].Address) # "none"
  /\ Family(addrs[i].Address) = Family(ParseCIDRIPString(cidr))

C10_RoundTrip ==
  (/\ SameRouteAgain("delete")
   /\ prev.err = ErrNil
   /\ last.err = ErrNil
   /\ PrevStartedFresh)
  => /\ last.preRoutes = Append(prev.preRoutes, Route(prev.cidr, prev.nexthop))
     /\ OwnerPairs(last.prePairs, last.node, last.nexthop)
          = Append(OwnerPairs(prev.prePairs, prev.node, prev.nexthop), prev.cidr)
     /\ routerRoutes = prev.preRoutes
     /\ portPairs = prev.prePairs

C10_Witness ==
  /\ SameRouteAgain("delete")
  /\ prev.err = ErrNil
  /\ last.err = ErrNil
  /\ PrevStartedFresh
  /\ prev.preRoutes # << >>
  /\ last.nRouterUpdate = 1
  /\ last.nPortUpdate = 1

\* ------------------------------------------------ properties, continued
NoDuplicates(s) == \A x \in Elems(s) : Count(s, x) = 1

\* t is s with one occurrence of x less, the other entries as many times
OneLess(s, t, x) ==
  \A y \in Elems(s) \cup Elems(t) \cup {x} :
     Count(t, y) = Count(s, y) - (IF y = x THEN 1 ELSE 0)

Reverse(s) == [i \in 1..Len(s) |-> s[Len(s) + 1 - i]]

\* the forward writes of a returned call that succeeded
RouterWritten(c) == c.nRouterUpdate = 1 /\ c.trigger # "updateRoutes"
PortWritten(c) == c.nPortUpdate = 1 /\ c.trigger # "updateAllowedAddressPairs"

\* C11: starting from a duplicate-free route table, after any serialized
\* sequence of CreateRoute and DeleteRoute calls, failures and rollbacks
\* included, the table holds at most one entry per (DestinationCIDR, NextHop)
C11_RouteTableUnique == NoDuplicates(routerRoutes)

\* C13: a compensation is armed only after its forward write succeeded; a
\* call that fails runs every armed compensation exactly once, the most
\* recently pushed first, before it returns; a call whose first write failed
\* and a call that succeeded issue no compensating write
C13_CompensationStack ==
  Mutating(last) =>
    /\ last.pushed = (IF RouterWritten(last) THEN <<"router">> ELSE << >>)
                     \o (IF PortWritten(last) THEN <<"port">> ELSE << >>)
    /\ last.nUnwind = Len(last.unwound)
    /\ last.err # ErrNil => last.unwound = Reverse(last.pushed)
    /\ last.err = ErrNil => last.unwound = << >>
    /\ last.trigger = "updateRoutes" => last.unwound = << >>

C13_Witness ==
  /\ Mutating(last)
  /\ last.err # ErrNil
  /\ last.pushed = <<"router">>
  /\ last.unwound = <<"router">>

\* C14: the port's filter list holds at most one entry per IPAddress
C14_FilterUnique == \A p \in PortIDs : NoDuplicates(portPairs[p])

C14_Witness ==
  /\ last.op = "create"
  /\ PortWritten(last)
  /\ Len(OwnerPairs(last.prePairs, last.node, last.nexthop)) >= 1
  /\ Len(OwnerPairs(portPairs, last.node, last.nexthop)) >= 2

\* C15: a CreateRoute that finds its (DestinationCIDR, NextHop) entry in the
\* table it read returns success without a router write, a port lookup, a
\* port read or a port write, whatever the port's filter list holds
C15_ExistingRoute ==
  (/\ last.op = "create"
   /\ last.trigger \notin {"getAddressesByName", "routersGet"}
   /\ Count(last.preRoutes, Route(last.cidr, last.nexthop)) > 0)
  => /\ last.err = ErrNil
     /\ NoWrites(last)
     /\ last.steps = <<"getAddressesByName", "routersGet">>
     /\ routerRoutes = last.preRoutes
     /\ portPairs = last.prePairs

C15_Witness ==
  /\ last.op = "create"
  /\ last.err = ErrNil
  /\ Count(last.preRoutes, Route(last.cidr, last.nexthop)) > 0
  /\ Count(OwnerPairs(last.prePairs, last.node, last.nexthop), last.cidr) = 0

\* C16: a DeleteRoute that finds the route entry while the owning port has
\* no filter entry for the CIDR removes the route, issues no port write,
\* leaves the filter list as it was, rolls nothing back and returns success
C16_DeleteNoFilterEntry ==
  (/\ last.op = "delete"
   /\ last.trigger = ""
   /\ Count(last.preRoutes, Route(last.cidr, last.nexthop)) > 0
   /\ Count(OwnerPairs(last.prePairs, last.node, last.nexthop), last.cidr) = 0)
  => /\ last.err = ErrNil
     /\ last.nRouterUpdate = 1
     /\ OneLess(last.preRoutes, routerRoutes, Route(last.cidr, last.nexthop))
     /\ last.steps = <<"getAddressesByName", "routersGet", "updateRoutes",
                       "getPortIDByIP", "getPortByID">>
     /\ last.nPortUpdate = 0
     /\ portPairs = last.prePairs
     /\ last.nUnwind = 0

C16_Witness ==
  /\ last.op = "delete"
  /\ last.trigger = ""
  /\ Count(last.preRoutes, Route(last.cidr, last.nexthop)) > 0
  /\ OwnerPairs(last.prePairs, last.node, last.nexthop) # << >>
  /\ Count(OwnerPairs(last.prePairs, last.node, last.nexthop), last.cidr) = 0

\* C17: a successful CreateRoute or DeleteRoute changes each collection it
\* writes by exactly its one entry, the other entries kept as many times as
\* they were (their order may change on delete); after a successful
\* DeleteRoute on a duplicate-free table the entry is absent
C17_OneEntry ==
  (Mutating(last) /\ last.err = ErrNil) =>
    LET e == Route(last.cidr, last.nexthop)
        p == PortIDByIP(last.node, last.nexthop)
    IN /\ last.nRouterUpdate = 0 => routerRoutes = last.preRoutes
       /\ last.nPortUpdate = 0 => portPairs = last.prePairs
       /\ (last.op = "create" /\ last.nRouterUpdate = 1)
            => routerRoutes = Append(last.preRoutes, e)
       /\ (last.op = "create" /\ last.nPortUpdate = 1)
            => portPairs = [last.prePairs EXCEPT ![p] = Append(@, last.cidr)]
       /\ (last.op = "delete" /\ last.nRouterUpdate = 1)
            => OneLess(last.preRoutes, routerRoutes, e)
       /\ (last.op = "delete" /\ last.nPortUpdate = 1)
            => /\ OneLess(last.prePairs[p], portPairs[p], last.cidr)
               /\ \A q \in PortIDs \ {p} : portPairs[q] = last.prePairs[q]
       /\ (last.op = "delete" /\ NoDuplicates(last.preRoutes))
            => Count(routerRoutes, e) = 0

C17_Witness ==
  /\ last.op = "delete"
  /\ last.err = ErrNil
  /\ last.nRouterUpdate = 1
  /\ last.nPortUpdate = 1
  /\ Len(last.preRoutes) >= 2
  /\ last.preRoutes[Len(last.preRoutes)] # Route(last.cidr, last.nexthop)

\* C19: a call issues at most one compensating write, and it always targets
\* the router: the port's filter list is never rewritten by a rollback, and
\* no call fails with two compensations armed
C19_OneRouterCompensation ==
  Mutating(last) =>
    /\ last.nUnwind <= 1
    /\ \A i \in DOMAIN last.unwound : last.unwound[i] = "router"
    /\ last.err # ErrNil => /\ Len(last.pushed) <= 1
                            /\ \A i \in DOMAIN last.pushed : last.pushed[i] = "router"
                            /\ portPairs = last.prePairs

C19_Witness ==
  /\ Mutating(last)
  /\ last.trigger = "updateAllowedAddressPairs"
  /\ last.nPortUpdate = 1
  /\ last.unwound = <<"router">>

\* the remote calls of an operation in the order of its code
Order(op) ==
  IF op = "list" THEN <<"foreachServer", "routersGet">>
  ELSE <<"getAddressesByName", "routersGet", "updateRoutes", "getPortIDByIP",
         "getPortByID", "updateAllowedAddressPairs">>

\* the forward remote calls c issued, the compensating writes left out
Forward(c) == SelectSeq(c.steps, LAMBDA x : x # "unwind")

\* c issued a prefix of its operation's remote calls, each once, stopped at
\* the one that failed, with at most one router write and one port write
StraightLine(c) ==
  /\ Len(Forward(c)) <= Len(Order(c.op))
  /\ Forward(c) = SubSeq(Order(c.op), 1, Len(Forward(c)))
  /\ c.trigger # "" => Forward(c)[Len(Forward(c))] = c.trigger
  /\ c.nRouterUpdate <= 1
  /\ c.nPortUpdate <= 1

\* the step of caller p from this state to the next
Stepped(p) == call[p].pc # "returned" /\ call'[p].steps = Append(call[p].steps, call[p].pc)

\* C12: two callers without mutual exclusion each write the whole route
\* table computed from their own read: a CreateRoute's write leaves the
\* table it read plus its entry, and no entry that was added since the read
\* survives the write, so of two successful calls for different CIDRs the
\* second writer can erase the first writer's route
C12_WholeTableWrite ==
  [][\A p \in Callers :
       (Stepped(p) /\ call[p].pc = "updateRoutes" /\ call'[p].pc = "getPortIDByIP")
       => /\ call[p].op = "create"
               => routerRoutes' = Append(call[p].router, EntryOf(call[p]))
          /\ \A x \in Elems(routerRoutes) \ Elems(call[p].router) :
               x # EntryOf(call[p]) => Count(routerRoutes', x) = 0]_vars

C12_Witness ==
  \E a, b \in Callers :
     /\ a # b
     /\ Committed(a) /\ Committed(b)
     /\ call[a].cidr # call[b].cidr
     /\ b \in call[a].overwrote
     /\ Count(routerRoutes, EntryOf(call[a])) = 1
     /\ Count(routerRoutes, EntryOf(call[b])) = 0

\* C18: every call terminates provided each of its remote calls returns or
\* fails; its remote calls are issued in the order of the code, each at most
\* once and none after one failed, with at most one router write and one
\* port write
C18_Terminates ==
  /\ [](\A p \in Callers : StraightLine(call[p]))
  /\ \A p \in Callers : (call[p].pc # "returned") ~> (call[p].pc = "returned")

C18_Witness ==
  \E p \in Callers :
     /\ call[p].pc = "returned"
     /\ call[p].err = ErrNil
     /\ call[p].nRouterUpdate = 1
     /\ call[p].nPortUpdate = 1
     /\ Len(call[p].steps) = 6

\* C20: the rollback of a CreateRoute writes back the whole table as the call
\* read it, whatever was committed since, and tells no other caller: a call
\* that returned success loses its route to the later rollback of another
C20_RollbackWritesSnapshot ==
  [][\A p \in Callers :
       (/\ Stepped(p)
        /\ call[p].pc = "unwind"
        /\ call[p].op = "create"
        /\ ~call'[p].unwindFailed)
       => /\ routerRoutes' = call[p].router
          /\ \A q \in Callers \ {p} : call'[q] = call[q]]_vars

C20_Witness ==
  \E a, b \in Callers :
     /\ a # b
     /\ call[a].pc = "returned" /\ call[a].op = "create" /\ call[a].err # ErrNil
     /\ call[a].unwound = <<"router">>
     /\ b \in call[a].robbed
     /\ Committed(b)
     /\ Count(routerRoutes, EntryOf(call[b])) = 0

====
